---- MODULE Spec2Model ----
(***************************************************************************)
(* A model of assets/js/phoenix_live_view/performance_optimizations.js:    *)
(* the query cache (optimizedDOMAll), the attribute merge                  *)
(* (optimizedMergeAttrs), the stream reorder (optimizedStreamReorder), the *)
(* object pool, the batched insertion, the private store, the debounce and *)
(* the node key of the morphdom configuration.                             *)
(***************************************************************************)
EXTENDS Integers, Sequences, FiniteSets, TLC

VARIABLES
  clock,        \* Date.now(), in ms
  queryCache,   \* the module-level Map: cache key -> [results, timestamp]
  tree,         \* live tree: scope node handle -> its descendants, document order
  created,      \* number of containers the fill loop has created so far
  lastLookup,   \* the most recent optimizedDOMAll call and what it returned
  lookups,      \* per cache key that Lookup has used: its latest lookup
  mpc,          \* where the caller of the merge is: new, build, merged, again
  target,       \* the element merged into
  source,       \* the element merged from
  mergeOpts,    \* opts of the latest optimizedMergeAttrs call
  mergePre,     \* target as it was when that call started
  mergeLogs,    \* per optimizedMergeAttrs call so far: its writes on target, in order
  mergeTrace,   \* the reads and writes of the latest call on the two elements, in order
  children,     \* container -> its child elements, in order
  lastReorder,  \* the latest optimizedStreamReorder call, if nothing moved since
  dwait,        \* wait of the debounced function, NotWrapped before debounce()
  dclock,       \* the event loop's time, in ms
  timers,       \* the timers set and neither fired nor cleared: [id, due, args]
  timeout,      \* the variable timeout of the closure: a timer id, or NoTimer
  invoked,      \* the invocations of the debounced function so far
  executed,     \* the executions of func so far: their number and the latest
  pool,         \* the ObjectPool: whether built, whether it has a resetFn, this.pool
  instances,    \* the arrays createFn has made: instance -> its length
  refs,         \* consumer -> the instances it has a reference to
  holders,      \* instance -> the consumers that got it and have not released it since
  poolCounts,   \* calls of get and release so far; per instance, reset at last release
  lastGet,      \* the latest get()
  lastRelease,  \* the latest release(obj)
  privateStore, \* optimizedPrivateStore: node -> its private object, if any
  deleted,      \* the (node, key) pairs deleted and not put since
  lastPrivate,  \* the latest call on the store, or of getNodeKey
  lastBadCall,  \* the latest merge or reorder call that was passed a null
  lastBatch     \* the latest batchDOMUpdates call

cacheVars == <<clock, queryCache, tree, created, lastLookup, lookups>>

mergeVars == <<mpc, target, source, mergeOpts, mergePre, mergeLogs, mergeTrace>>

reorderVars == <<children, lastReorder>>

debounceVars == <<dwait, dclock, timers, timeout, invoked, executed>>

poolVars == <<pool, instances, refs, holders, poolCounts, lastGet, lastRelease>>

storeVars == <<privateStore, deleted, lastPrivate>>

missingVars == <<lastBadCall>>

batchVars == <<lastBatch>>

utilVars == <<debounceVars, poolVars, storeVars, missingVars, batchVars>>

coreVars == <<cacheVars, mergeVars, reorderVars>>

notDebounce == <<coreVars, poolVars, storeVars, missingVars, batchVars>>

notPool == <<coreVars, debounceVars, storeVars, missingVars, batchVars>>

notStore == <<coreVars, debounceVars, poolVars, missingVars, batchVars>>

notMissing == <<debounceVars, poolVars, storeVars, batchVars>>

notBatch == <<debounceVars, poolVars, storeVars, missingVars>>

vars == <<cacheVars, mergeVars, reorderVars, utilVars>>

----------------------------------------------------------------------------
(* Bounds of the model *)

MaxClock == 150          \* the clock stops advancing here
TickSteps == {50}        \* the amounts, in ms, by which the clock advances
FillBurst == 25          \* containers created by one run of the fill loop
MaxContainers == 75      \* containers created over a whole behaviour
MaxStreamAt == 5         \* the largest streamAt passed to the reorder
MaxInvocations == 5      \* invocations of the debounced function
MaxDebounceClock == 100  \* the event loop's time stops advancing here
DebounceSteps == {10, 50} \* the amounts, in ms, by which it advances
MaxPoolCalls == 5        \* calls of get and release on the pool
MaxArrayLen == 1         \* the longest array a consumer builds
MaxUpdates == 3          \* the longest list of updates passed to a batch

----------------------------------------------------------------------------
(* Program constants *)

CACHE_TTL == 100
CacheSizeLimit == 100

----------------------------------------------------------------------------
(* Small helpers for maps (JS Map / object) *)

MapPut(m, k, v) == (k :> v) @@ m

MapRestrict(m, S) == [x \in S |-> m[x]]

EmptyMap == <<>>

----------------------------------------------------------------------------
(* Scope nodes and the live tree *)

NULL == [h |-> 0, id |-> "", tagName |-> "", className |-> ""]

\* A named scope: <div id="a">
NodeA == [h |-> 1, id |-> "a", tagName |-> "DIV", className |-> ""]

\* A scope without id: <div class="item">
NodeB == [h |-> 2, id |-> "", tagName |-> "DIV", className |-> "item"]

\* A scope whose id holds a colon: <div id="a:div">
NodeColon == [h |-> 3, id |-> "a:div", tagName |-> "DIV", className |-> ""]

NamedScopes == {NodeA, NodeB, NodeColon}

Queries == {".item", "[data-id]"}

\* two selectors with and without a colon: "div:empty" selects the div elements
\* without children, "empty" the elements of type empty
ColonQueries == {"div:empty", "empty"}

\* whether element e matches selector q: x is <div class="item" data-id>,
\* y is <div class="item">, both without children
Matches(q, e) ==
  \/ q = ".item"
  \/ q = "[data-id]" /\ e = "x"
  \/ q = "div:empty"

TreeShapes == {<<"x">>, <<"y", "x">>}

\* createLargeDOM(1): a new container with id container-i holding one item
Container(i) ==
  [h |-> 100 + i, id |-> "container-" \o ToString(i), tagName |-> "DIV", className |-> ""]

LargeDOMItems == <<"item-0">>

\* Array.from(node.querySelectorAll(query))
querySelectorAll(t, node, query) ==
  IF node \in NamedScopes
    THEN SelectSeq(t[node.h], LAMBDA e : Matches(query, e))
    ELSE LargeDOMItems

----------------------------------------------------------------------------
(* optimizedDOMAll *)

\* const nodeId = node.id || node.tagName + (node.className || '')
nodeId(node) == IF node.id # "" THEN node.id ELSE node.tagName \o node.className

cacheKey(node, query) == nodeId(node) \o ":" \o query

\* (variant: an entry exactly CACHE_TTL old still counts as a hit)
IsHitInclusive(cache, key, now) ==
  /\ key \in DOMAIN cache
  /\ now - cache[key].timestamp <= CACHE_TTL

\* cached && Date.now() - cached.timestamp < CACHE_TTL (the calls of Date.now()
\* within one lookup are taken to give the same instant, now)
IsHit(cache, key, now) ==
  /\ key \in DOMAIN cache
  /\ now - cache[key].timestamp < CACHE_TTL

\* (variant: an entry already stored under the key is kept)
StoreIfAbsent(cache, key, results, now) ==
  IF key \in DOMAIN cache THEN cache
  ELSE MapPut(cache, key, [results |-> results, timestamp |-> now])

\* queryCache.set(cacheKey, {results: array, timestamp: Date.now()})
StoreEntry(cache, key, results, now) ==
  MapPut(cache, key, [results |-> results, timestamp |-> now])

\* now - value.timestamp > CACHE_TTL: the entries the sweep deletes
IsSwept(entry, now) == now - entry.timestamp > CACHE_TTL

\* the for-of loop deleting old entries
ClearOld(cache, now) ==
  MapRestrict(cache, {k \in DOMAIN cache : ~IsSwept(cache[k], now)})

\* whether the sweep runs after an insertion
OverLimit(cache) == Cardinality(DOMAIN cache) > CacheSizeLimit

\* the value returned: callback ? results.forEach(callback) : results
Returned(results, callback) ==
  IF callback THEN [kind |-> "undefined", items |-> <<>>]
              ELSE [kind |-> "array", items |-> results]

\* The record of a call: which branch it took and what it handed back.
\* results is the array served or produced, entryAt the timestamp of its entry.
CallRecord(node, query, key, now, hit, callback, results, entryAt, live, size) ==
  [made |-> TRUE, node |-> node, query |-> query, key |-> key, at |-> now,
   hit |-> hit, ran |-> (node # NULL /\ ~hit), callback |-> callback,
   ret |-> Returned(results, callback /\ node # NULL),
   results |-> results, entryAt |-> entryAt, live |-> live,
   sizeAfterSet |-> size]

\* One call of optimizedDOMAll(node, query, callback) at time now on tree t:
\* the cache it leaves and the record of the call.
DOMAll(cache, t, node, query, callback, now) ==
  IF node = NULL
    THEN [cache |-> cache,
          call |-> CallRecord(node, query, "", now, FALSE, callback, <<>>, now,
                              <<>>, Cardinality(DOMAIN cache))]
  ELSE
  LET key == cacheKey(node, query)
      live == querySelectorAll(t, node, query)
  IN IF IsHit(cache, key, now)
       THEN [cache |-> cache,
             call |-> CallRecord(node, query, key, now, TRUE, callback,
                                 cache[key].results, cache[key].timestamp,
                                 live, Cardinality(DOMAIN cache))]
       ELSE
         LET stored == StoreEntry(cache, key, live, now)
             kept == IF OverLimit(stored) THEN ClearOld(stored, now) ELSE stored
         IN [cache |-> kept,
             call |-> CallRecord(node, query, key, now, FALSE, callback,
                                 live, now, live, Cardinality(DOMAIN stored))]

\* the history kept for the claims: the latest lookup of each key
NoPrior ==
  [known |-> FALSE, at |-> 0, results |-> <<>>, entryAt |-> 0,
   nodeId |-> "", query |-> ""]

PriorOf(hist, key) ==
  IF key \in DOMAIN hist THEN hist[key] ELSE NoPrior

Noted(hist, call) ==
  IF call.node = NULL THEN hist
  ELSE MapPut(hist, call.key,
              [known |-> TRUE, at |-> call.at, results |-> call.results,
               entryAt |-> call.entryAt, nodeId |-> nodeId(call.node),
               query |-> call.query])

WithPrior(call, hist) ==
  [c |-> call, prior |-> PriorOf(hist, call.key)]

NoCall ==
  [c |-> [made |-> FALSE, node |-> NULL, query |-> "", key |-> "", at |-> 0,
          hit |-> FALSE, ran |-> FALSE, callback |-> FALSE,
          ret |-> Returned(<<>>, FALSE), results |-> <<>>, entryAt |-> 0,
          live |-> <<>>, sizeAfterSet |-> 0],
   prior |-> NoPrior]

----------------------------------------------------------------------------
(* Actions of the query cache *)

CacheInit ==
  /\ clock = 0
  /\ queryCache = EmptyMap
  /\ tree = [h \in {n.h : n \in NamedScopes} |-> <<"x">>]
  /\ created = 0
  /\ lastLookup = NoCall
  /\ lookups = EmptyMap

\* time passes
Tick ==
  \E d \in TickSteps :
    /\ clock + d <= MaxClock
    /\ clock' = clock + d
    /\ UNCHANGED <<queryCache, tree, created, lastLookup, lookups, mergeVars, reorderVars, utilVars>>

\* the live tree under one of the scopes changes (outside the cache)
TreeChangeOn(nodes) ==
  \E n \in nodes, shape \in TreeShapes :
    /\ shape # tree[n.h]
    /\ tree' = [tree EXCEPT ![n.h] = shape]
    /\ UNCHANGED <<clock, queryCache, created, lastLookup, lookups, mergeVars, reorderVars, utilVars>>

\* optimizedDOMAll(node, query, callback)
LookupOn(nodes, queries, callbacks) ==
  \E node \in nodes, query \in queries, callback \in callbacks :
    LET r == DOMAll(queryCache, tree, node, query, callback, clock)
    IN /\ queryCache' = r.cache
       /\ lastLookup' = WithPrior(r.call, lookups)
       /\ lookups' = Noted(lookups, r.call)
       /\ UNCHANGED <<clock, tree, created, mergeVars, reorderVars, utilVars>>

\* One iteration of the loop of "Memory efficiency - cache size management":
\* DOM.all(container, '.item') then DOM.all(container, '[data-id]').
FillOne(st, t, i) ==
  LET r1 == DOMAll(st.cache, t, Container(i), ".item", FALSE, st.now)
      r2 == DOMAll(r1.cache, t, Container(i), "[data-id]", FALSE, st.now)
  IN [cache |-> r2.cache, call |-> r2.call, now |-> st.now]

\* iterations i..last of that loop, in order (comparing the clock makes TLC
\* finish an iteration before it starts the next)
RECURSIVE FillRun(_, _, _, _)
FillRun(st, t, i, last) ==
  IF i > last THEN st
  ELSE LET next == FillOne(st, t, i)
       IN IF next.now = st.now THEN FillRun(next, t, i + 1, last) ELSE next

\* the loop over FillBurst new containers; each key it looks up is new
FillLoop ==
  /\ created + FillBurst <= MaxContainers
  /\ LET st == FillRun([cache |-> queryCache, call |-> lastLookup.c, now |-> clock],
                       tree, created + 1, created + FillBurst)
     IN /\ queryCache' = st.cache
        /\ lastLookup' = WithPrior(st.call, lookups)
  /\ created' = created + FillBurst
  /\ UNCHANGED <<clock, tree, lookups, mergeVars, reorderVars, utilVars>>

----------------------------------------------------------------------------
(* Elements and their attributes, as optimizedMergeAttrs reads and writes them *)

PHX_REF == "data-phx-ref"

PHX_REF_SRC == "data-phx-ref-src"

\* the attribute names in the model; element.attributes lists them in the order
\* they were added, for which this fixed order stands (names are unique, so the
\* attributes a merge leaves do not depend on it)
AttrOrder == <<"value", "class", "data-x", PHX_REF, PHX_REF_SRC>>

AttrNames == {AttrOrder[i] : i \in DOMAIN AttrOrder}

\* name.startsWith("data-")
StartsWithData(name) == name \in {"data-x", PHX_REF, PHX_REF_SRC}

\* what getAttribute returns for a missing attribute, and what .value is on an
\* element that has no such property
NullAttr == "<null>"

Undefined == "<undefined>"

\* document.createElement(kind)
NewElement(kind) == [kind |-> kind, attrs |-> EmptyMap, dirty |-> FALSE, typed |-> ""]

hasAttribute(el, name) == name \in DOMAIN el.attrs

getAttribute(el, name) == IF hasAttribute(el, name) THEN el.attrs[name] ELSE NullAttr

setAttribute(el, name, value) == [el EXCEPT !.attrs = MapPut(el.attrs, name, value)]

removeAttribute(el, name) ==
  [el EXCEPT !.attrs = MapRestrict(el.attrs, DOMAIN el.attrs \ {name})]

\* el.value: undefined on a div; on an input the typed text once the user (or
\* a script) has set it, and until then the value attribute, or ""
valueOf(el) ==
  IF el.kind # "input" THEN Undefined
  ELSE IF el.dirty THEN el.typed
  ELSE IF hasAttribute(el, "value") THEN el.attrs["value"] ELSE ""

\* el.attributes, as the sequence of its names
attributes(el) == SelectSeq(AttrOrder, LAMBDA n : hasAttribute(el, n))

----------------------------------------------------------------------------
(* optimizedMergeAttrs *)

\* (variant: the exception compares the value attributes, not the values)
ValueExceptionOnAttributes(t, src, name) ==
  name = "value" /\ getAttribute(t, "value") = getAttribute(src, "value")

\* the value exception: name === "value" && target.value === source.value
ValueException(t, src, name) == name = "value" /\ valueOf(t) = valueOf(src)

\* (variant: a set is recorded without comparing with target's attribute)
ShouldSetWithoutCompare(t, src, opts, name) ==
  IF name \notin opts.exclude
    THEN ~opts.isIgnored \/ (opts.isIgnored /\ StartsWithData(name))
    ELSE ValueException(t, src, name)

\* (variant: the filtered mode does not hold back the other names)
ShouldSetAnyPrefix(t, src, opts, name) ==
  IF name \notin opts.exclude
    THEN getAttribute(t, name) # src.attrs[name]
    ELSE ValueException(t, src, name)

\* first pass, lines 61-68: whether a set is recorded for source attribute name
ShouldSet(t, src, opts, name) ==
  IF name \notin opts.exclude
    THEN /\ getAttribute(t, name) # src.attrs[name]
         /\ (~opts.isIgnored \/ (opts.isIgnored /\ StartsWithData(name)))
    ELSE ValueException(t, src, name)

\* (variant: the removal pass spares the excluded names)
ShouldRemoveUnlessExcluded(t, src, opts, name) ==
  IF opts.isIgnored
    THEN /\ StartsWithData(name)
         /\ ~hasAttribute(src, name)
         /\ name \notin {PHX_REF, PHX_REF_SRC}
    ELSE ~hasAttribute(src, name) /\ name \notin opts.exclude

\* second pass, lines 75-83: whether a removal is recorded for target attribute name
ShouldRemove(t, src, opts, name) ==
  IF opts.isIgnored
    THEN /\ StartsWithData(name)
         /\ ~hasAttribute(src, name)
         /\ name \notin {PHX_REF, PHX_REF_SRC}
    ELSE ~hasAttribute(src, name)

attributesToSet(t, src, opts) ==
  LET names == SelectSeq(attributes(src), LAMBDA n : ShouldSet(t, src, opts, n))
  IN [i \in DOMAIN names |-> [op |-> "set", name |-> names[i], value |-> src.attrs[names[i]]]]

attributesToRemove(t, src, opts) ==
  LET names == SelectSeq(attributes(t), LAMBDA n : ShouldRemove(t, src, opts, n))
  IN [i \in DOMAIN names |-> [op |-> "remove", name |-> names[i], value |-> NullAttr]]

\* one write on an element
ApplyWrite(el, w) ==
  IF w.op = "set" THEN setAttribute(el, w.name, w.value)
                  ELSE removeAttribute(el, w.name)

\* the writes of a list, applied in order
RECURSIVE ApplyWrites(_, _)
ApplyWrites(el, ws) ==
  IF ws = <<>> THEN el
  ELSE ApplyWrites(ApplyWrite(el, Head(ws)), Tail(ws))

\* the writes of one call, in the order lines 87-88 make them
MergeWrites(t, src, opts) ==
  attributesToSet(t, src, opts) \o attributesToRemove(t, src, opts)

optimizedMergeAttrs(t, src, opts) == ApplyWrites(t, MergeWrites(t, src, opts))

\* One access the call makes to target or source.
Access(on, act, what, name) == [on |-> on, act |-> act, what |-> what, name |-> name]

RECURSIVE Flatten(_)
Flatten(ss) == IF ss = <<>> THEN <<>> ELSE Head(ss) \o Flatten(Tail(ss))

\* lines 57-69: what the first pass reads for each attribute of source
FirstPassReads(src, opts) ==
  LET names == attributes(src)
  IN Flatten([i \in DOMAIN names |->
       IF names[i] \notin opts.exclude
         THEN <<Access("target", "read", "getAttribute", names[i])>>
       ELSE IF names[i] = "value"
         THEN <<Access("target", "read", "value", "value"),
                Access("source", "read", "value", "value")>>
       ELSE <<>>])

\* lines 73-84: what the second pass reads for each attribute of target
SecondPassReads(t, opts) ==
  LET names == attributes(t)
  IN Flatten([i \in DOMAIN names |->
       IF opts.isIgnored /\ ~StartsWithData(names[i])
         THEN <<>>
         ELSE <<Access("source", "read", "hasAttribute", names[i])>>])

\* lines 87-88: the calls applying a list of recorded writes
WriteAccesses(ws) ==
  [i \in DOMAIN ws |->
     Access("target", "write",
            IF ws[i].op = "set" THEN "setAttribute" ELSE "removeAttribute",
            ws[i].name)]

\* (variant: the sets are applied as soon as the first pass is over, and the
\* second pass reads target after them)
MergeAccessesEager(t, src, opts) ==
  LET sets == attributesToSet(t, src, opts)
      mid == ApplyWrites(t, sets)
  IN <<Access("source", "read", "attributes", "")>>
     \o FirstPassReads(src, opts)
     \o WriteAccesses(sets)
     \o <<Access("target", "read", "attributes", "")>>
     \o SecondPassReads(mid, opts)
     \o WriteAccesses(attributesToRemove(mid, src, opts))

\* lines 56-88: the accesses of one call, in order
MergeAccesses(t, src, opts) ==
  <<Access("source", "read", "attributes", "")>>
  \o FirstPassReads(src, opts)
  \o <<Access("target", "read", "attributes", "")>>
  \o SecondPassReads(t, opts)
  \o WriteAccesses(MergeWrites(t, src, opts))

----------------------------------------------------------------------------
(* Actions of the merge: two elements are created and given attributes and
   values, then merged, then merged once more with the same options *)

ElementKinds == {"div", "input"}

\* the values the caller gives to an attribute of target or source
AttrChoices(which, name) ==
  IF which = "source"
    THEN CASE name = "value" -> {"X", "Y"}
           [] name \in {"class", "data-x"} -> {"X"}
           [] OTHER -> {}
    ELSE CASE name \in {"value", "data-x"} -> {"X", "Y"}
           [] name = "class" -> {"Y"}
           [] OTHER -> {"X"}

\* the texts typed into target or source
TypedChoices(which) == IF which = "source" THEN {"X"} ELSE {"", "X"}

ExcludeChoices == {{}, {"value"}, {"class", "data-x"}}

NoOpts == [exclude |-> {}, isIgnored |-> FALSE]

MergeInit ==
  /\ mpc = "new"
  /\ target = NewElement("div")
  /\ source = NewElement("div")
  /\ mergeOpts = NoOpts
  /\ mergePre = NewElement("div")
  /\ mergeLogs = <<>>
  /\ mergeTrace = <<>>

CreateElements ==
  /\ mpc = "new"
  /\ \E tk \in ElementKinds, sk \in ElementKinds :
       /\ target' = NewElement(tk)
       /\ source' = NewElement(sk)
       /\ mergePre' = NewElement(tk)
  /\ mpc' = "build"
  /\ UNCHANGED <<mergeOpts, mergeLogs, mergeTrace, cacheVars, reorderVars, utilVars>>

\* el.setAttribute(name, value) by the caller, before the merge
SetAttribute ==
  /\ mpc = "build"
  /\ \E name \in AttrNames :
       \/ \E v \in AttrChoices("target", name) :
            /\ target' = setAttribute(target, name, v)
            /\ mergePre' = target'
            /\ UNCHANGED source
       \/ \E v \in AttrChoices("source", name) :
            /\ source' = setAttribute(source, name, v)
            /\ UNCHANGED <<target, mergePre>>
  /\ UNCHANGED <<mpc, mergeOpts, mergeLogs, mergeTrace, cacheVars, reorderVars, utilVars>>

\* el.value = text, by the user or the caller, before the merge
SetValue ==
  /\ mpc = "build"
  /\ \/ /\ target.kind = "input"
        /\ \E v \in TypedChoices("target") :
             target' = [target EXCEPT !.dirty = TRUE, !.typed = v]
        /\ mergePre' = target'
        /\ UNCHANGED source
     \/ /\ source.kind = "input"
        /\ \E v \in TypedChoices("source") :
             source' = [source EXCEPT !.dirty = TRUE, !.typed = v]
        /\ UNCHANGED <<target, mergePre>>
  /\ UNCHANGED <<mpc, mergeOpts, mergeLogs, mergeTrace, cacheVars, reorderVars, utilVars>>

\* optimizedMergeAttrs(target, source, opts)
MergeWith(opts) ==
  /\ mergeOpts' = opts
  /\ mergePre' = target
  /\ mergeLogs' = Append(mergeLogs, MergeWrites(target, source, opts))
  /\ mergeTrace' = MergeAccesses(target, source, opts)
  /\ target' = optimizedMergeAttrs(target, source, opts)
  /\ UNCHANGED <<source, cacheVars, reorderVars, utilVars>>

Merge ==
  /\ mpc = "build"
  /\ \E ex \in ExcludeChoices, ig \in BOOLEAN :
       MergeWith([exclude |-> ex, isIgnored |-> ig])
  /\ mpc' = "merged"

\* the same call once more, source untouched
MergeAgain ==
  /\ mpc = "merged"
  /\ MergeWith(mergeOpts)
  /\ mpc' = "again"

MergeNext == CreateElements \/ SetAttribute \/ SetValue \/ Merge \/ MergeAgain

----------------------------------------------------------------------------
(* Containers and their children, as optimizedStreamReorder reads and moves them *)

Containers == {"c1", "c2"}

Items == {"A", "B", "C", "D"}

NoParent == "none"

\* item.parentElement
parentElement(ch, item) ==
  IF \E c \in Containers : \E i \in DOMAIN ch[c] : ch[c][i] = item
    THEN CHOOSE c \in Containers : \E i \in DOMAIN ch[c] : ch[c][i] = item
    ELSE NoParent

\* Array.prototype.indexOf.call(children, item), counted from 0; -1 if absent
indexOf(kids, item) ==
  IF \E i \in DOMAIN kids : kids[i] = item
    THEN (CHOOSE i \in DOMAIN kids : kids[i] = item) - 1
    ELSE -1

Without(kids, item) == SelectSeq(kids, LAMBDA k : k # item)

\* the item leaves the parent it has, if any
Removed(ch, item) == [c \in Containers |-> Without(ch[c], item)]

\* kids with item put in so that it gets index at (from 0)
InsertAt(kids, item, at) ==
  SubSeq(kids, 1, at) \o <<item>> \o SubSeq(kids, at + 1, Len(kids))

\* container.appendChild(item)
appendChild(ch, container, item) ==
  LET out == Removed(ch, item)
  IN [out EXCEPT ![container] = Append(out[container], item)]

\* container.insertBefore(item, ref); ref is a child of container, or NoParent
\* for a missing reference (the item is then appended)
insertBefore(ch, container, item, ref) ==
  LET next == IF ref = item
                THEN (IF indexOf(ch[container], item) + 2 \in DOMAIN ch[container]
                        THEN ch[container][indexOf(ch[container], item) + 2]
                        ELSE NoParent)
                ELSE ref
      out == Removed(ch, item)
  IN IF next = NoParent
       THEN [out EXCEPT ![container] = Append(out[container], item)]
       ELSE [out EXCEPT ![container] =
               InsertAt(out[container], item, indexOf(out[container], next))]

\* children[i], counted from 0; NoParent stands for undefined
childAt(kids, i) == IF i + 1 \in DOMAIN kids THEN kids[i + 1] ELSE NoParent

Min(a, b) == IF a <= b THEN a ELSE b

----------------------------------------------------------------------------
(* optimizedStreamReorder: each operator gives the children after the step
   and the structural calls it made *)

NoMove(ch) == [children |-> ch, moves |-> <<>>]

DidInsertBefore(ch, container, item, ref) ==
  [children |-> insertBefore(ch, container, item, ref),
   moves |-> <<[op |-> "insertBefore", item |-> item, ref |-> ref]>>]

DidAppendChild(ch, container, item) ==
  [children |-> appendChild(ch, container, item),
   moves |-> <<[op |-> "appendChild", item |-> item, ref |-> NoParent]>>]

\* (variant: the item is inserted even when it is the first child already)
MoveFirstUnchecked(ch, container, item) ==
  DidInsertBefore(ch, container, item, childAt(ch[container], 0))

\* lines 127-129: streamAt === 0
MoveFirst(ch, container, item) ==
  IF childAt(ch[container], 0) # item
    THEN DidInsertBefore(ch, container, item, childAt(ch[container], 0))
    ELSE NoMove(ch)

\* (variant: an item that is not a child of the container is left where it is)
MoveToOwnChild(ch, container, item, streamAt) ==
  LET kids == ch[container]
      targetIndex == Min(streamAt, Len(kids) - 1)
      currentIndex == indexOf(kids, item)
  IN IF currentIndex # targetIndex /\ currentIndex >= 0
       THEN IF targetIndex >= Len(kids) - 1
              THEN DidAppendChild(ch, container, item)
              ELSE LET sibling == childAt(kids, targetIndex)
                   IN IF currentIndex > targetIndex
                        THEN DidInsertBefore(ch, container, item, sibling)
                        ELSE DidInsertBefore(ch, container, item,
                                             childAt(kids, targetIndex + 1))
       ELSE NoMove(ch)

\* (variant: the item is always inserted before the sibling at the target index)
MoveToBeforeSibling(ch, container, item, streamAt) ==
  LET kids == ch[container]
      targetIndex == Min(streamAt, Len(kids) - 1)
      currentIndex == indexOf(kids, item)
  IN IF currentIndex # targetIndex
       THEN IF targetIndex >= Len(kids) - 1
              THEN DidAppendChild(ch, container, item)
              ELSE DidInsertBefore(ch, container, item, childAt(kids, targetIndex))
       ELSE NoMove(ch)

\* lines 131-145: streamAt > 0
MoveTo(ch, container, item, streamAt) ==
  LET kids == ch[container]
      targetIndex == Min(streamAt, Len(kids) - 1)
      currentIndex == indexOf(kids, item)
  IN IF currentIndex # targetIndex
       THEN IF targetIndex >= Len(kids) - 1
              THEN DidAppendChild(ch, container, item)
              ELSE LET sibling == childAt(kids, targetIndex)
                   IN IF currentIndex > targetIndex
                        THEN DidInsertBefore(ch, container, item, sibling)
                        ELSE \* sibling.nextElementSibling
                             DidInsertBefore(ch, container, item,
                                             childAt(kids, targetIndex + 1))
       ELSE NoMove(ch)

optimizedStreamReorder(ch, container, item, streamAt) ==
  IF parentElement(ch, item) = NoParent THEN NoMove(ch)
  ELSE IF streamAt = 0 THEN MoveFirst(ch, container, item)
  ELSE IF streamAt > 0 THEN MoveTo(ch, container, item, streamAt)
  ELSE NoMove(ch)

----------------------------------------------------------------------------
(* Actions of the reorder *)

NoReorder ==
  [made |-> FALSE, container |-> "c1", item |-> "A", streamAt |-> 0,
   parent |-> NoParent, pre |-> [c \in Containers |-> <<>>], moves |-> <<>>]

ReorderInit ==
  /\ children = [c \in Containers |-> IF c = "c1" THEN <<"A", "B", "C", "D">> ELSE <<>>]
  /\ lastReorder = NoReorder

\* item.remove(), by the caller
Detach ==
  \E item \in Items :
    /\ parentElement(children, item) # NoParent
    /\ children' = Removed(children, item)
    /\ lastReorder' = NoReorder
    /\ UNCHANGED <<cacheVars, mergeVars, utilVars>>

\* container.appendChild(item) of an item without parent, by the caller
Attach ==
  \E item \in Items, c \in Containers :
    /\ parentElement(children, item) = NoParent
    /\ children' = appendChild(children, c, item)
    /\ lastReorder' = NoReorder
    /\ UNCHANGED <<cacheVars, mergeVars, utilVars>>

\* optimizedStreamReorder(container, item, streamAt)
Reorder ==
  \E c \in Containers, item \in Items, streamAt \in -1..MaxStreamAt :
    LET r == optimizedStreamReorder(children, c, item, streamAt)
    IN /\ children' = r.children
       /\ lastReorder' = [made |-> TRUE, container |-> c, item |-> item,
                          streamAt |-> streamAt,
                          parent |-> parentElement(children, item),
                          pre |-> children, moves |-> r.moves]
       /\ UNCHANGED <<cacheVars, mergeVars, utilVars>>

ReorderNext == Detach \/ Attach \/ Reorder

----------------------------------------------------------------------------
(* Calls of the merge and of the reorder with a missing (null) argument *)

\* null passed for target or source
MissingElement == [kind |-> "null", attrs |-> EmptyMap, dirty |-> FALSE, typed |-> ""]

\* null passed for container or item
MissingNode == "null"

\* the elements passed where one is given
SampleElements ==
  {NewElement("div"),
   setAttribute(NewElement("div"), "class", "X"),
   setAttribute(NewElement("input"), "value", "X"),
   setAttribute(setAttribute(NewElement("div"), "value", "Y"), "data-x", "X")}

\* the accesses of a call that come before its first write
ReadsBeforeWrites(src, opts) ==
  <<Access("source", "read", "attributes", "")>>
  \o FirstPassReads(src, opts)
  \o <<Access("target", "read", "attributes", "")>>

\* the first access to the element that is null: it raises a TypeError
FirstAccessOn(on, src, opts) ==
  LET reads == ReadsBeforeWrites(src, opts)
      at == CHOOSE i \in DOMAIN reads :
              /\ reads[i].on = on
              /\ \A j \in 1..(i - 1) : reads[j].on # on
  IN reads[at]

\* optimizedMergeAttrs(target, source, opts) where target or source may be
\* null: whether it threw, on which access, and target as the call left it
MergeCall(t, src, opts) ==
  IF src = MissingElement
    THEN [threw |-> TRUE, what |-> Access("source", "read", "attributes", ""),
          target |-> t]
  ELSE IF t = MissingElement
    THEN [threw |-> TRUE, what |-> FirstAccessOn("target", src, opts), target |-> t]
  ELSE [threw |-> FALSE, what |-> Access("", "", "", ""),
        target |-> optimizedMergeAttrs(t, src, opts)]

\* (variant: container.children is read before item.parentElement is looked at)
ReorderCallContainerFirst(ch, container, item, streamAt) ==
  IF item = MissingNode
    THEN [threw |-> TRUE, what |-> "item.parentElement", children |-> ch, moves |-> <<>>]
  ELSE IF container = MissingNode
    THEN [threw |-> TRUE, what |-> "container.children", children |-> ch, moves |-> <<>>]
  ELSE [threw |-> FALSE, what |-> ""] @@ optimizedStreamReorder(ch, container, item, streamAt)

\* optimizedStreamReorder(container, item, streamAt) where container or item
\* may be null: line 122 reads item.parentElement and returns for an item
\* without parent, line 124 reads container.children
ReorderCall(ch, container, item, streamAt) ==
  IF item = MissingNode
    THEN [threw |-> TRUE, what |-> "item.parentElement", children |-> ch, moves |-> <<>>]
  ELSE IF parentElement(ch, item) = NoParent
    THEN [threw |-> FALSE, what |-> "", children |-> ch, moves |-> <<>>]
  ELSE IF container = MissingNode
    THEN [threw |-> TRUE, what |-> "container.children", children |-> ch, moves |-> <<>>]
  ELSE [threw |-> FALSE, what |-> ""] @@ optimizedStreamReorder(ch, container, item, streamAt)

NoBadCall ==
  [op |-> "none", threw |-> FALSE, what |-> "", target |-> MissingElement,
   source |-> MissingElement, targetAfter |-> MissingElement,
   container |-> MissingNode, item |-> MissingNode, hasParent |-> FALSE,
   childrenChanged |-> FALSE, moves |-> <<>>]

MissingInit == lastBadCall = NoBadCall

\* optimizedMergeAttrs(target, source, opts) with target or source null
BadMerge ==
  \E t \in SampleElements \cup {MissingElement},
     src \in SampleElements \cup {MissingElement},
     ex \in ExcludeChoices, ig \in BOOLEAN :
    /\ t = MissingElement \/ src = MissingElement
    /\ LET r == MergeCall(t, src, [exclude |-> ex, isIgnored |-> ig])
       IN lastBadCall' = [NoBadCall EXCEPT
                            !.op = "merge", !.threw = r.threw, !.what = r.what.what,
                            !.target = t, !.source = src, !.targetAfter = r.target]
    /\ UNCHANGED <<coreVars, notMissing>>

\* optimizedStreamReorder(container, item, streamAt) with container or item null
BadReorder ==
  \E c \in Containers \cup {MissingNode}, item \in Items \cup {MissingNode},
     streamAt \in 0..MaxStreamAt :
    /\ c = MissingNode \/ item = MissingNode
    /\ LET r == ReorderCall(children, c, item, streamAt)
       IN /\ children' = r.children
          /\ lastBadCall' = [NoBadCall EXCEPT
                               !.op = "reorder", !.threw = r.threw, !.what = r.what,
                               !.container = c, !.item = item,
                               !.hasParent = /\ item # MissingNode
                                             /\ parentElement(children, item) # NoParent,
                               !.childrenChanged = r.children # children,
                               !.moves = r.moves]
    /\ lastReorder' = NoReorder
    /\ UNCHANGED <<cacheVars, mergeVars, notMissing>>

MissingNext == Detach \/ Attach \/ BadMerge \/ BadReorder

----------------------------------------------------------------------------
(* batchDOMUpdates: the fragment and the one attach *)

\* the elements named by adds: a child and a newly created element
BatchElements == {"A", "E"}

\* the updates a list is made of: adds, and one of another type
UpdateChoices ==
  [type : {"add"}, element : BatchElements] \cup {[type |-> "remove", element |-> "C"]}

RECURSIVE ListsUpTo(_, _)
ListsUpTo(S, n) ==
  IF n = 0 THEN {<<>>}
  ELSE LET shorter == ListsUpTo(S, n - 1)
       IN shorter \cup {Append(l, x) : l \in {k \in shorter : Len(k) = n - 1}, x \in S}

UpdateLists == ListsUpTo(UpdateChoices, MaxUpdates)

\* (variant: an element already in the fragment stays where it is)
FragmentAppendOnce(st, el) ==
  IF \E i \in DOMAIN st.fragment : st.fragment[i] = el THEN st
  ELSE [children |-> Removed(st.children, el), fragment |-> Append(st.fragment, el)]

\* fragment.appendChild(el): el leaves the parent it has, the fragment included
FragmentAppend(st, el) ==
  [children |-> Removed(st.children, el),
   fragment |-> Append(Without(st.fragment, el), el)]

\* lines 154-158: the loop over updates
RECURSIVE Buffered(_, _)
Buffered(st, updates) ==
  IF updates = <<>> THEN st
  ELSE Buffered(IF Head(updates).type = "add"
                  THEN FragmentAppend(st, Head(updates).element)
                  ELSE st,
                Tail(updates))

\* line 161: container.appendChild(fragment) moves the fragment's children,
\* in order, to the end of container
AttachFragment(st, container) ==
  [st.children EXCEPT ![container] = @ \o st.fragment]

\* batchDOMUpdates(container, updates): the children it leaves, what the
\* fragment held, and its calls of appendChild on container
batchDOMUpdates(ch, container, updates) ==
  LET st == Buffered([children |-> ch, fragment |-> <<>>], updates)
  IN [children |-> AttachFragment(st, container), fragment |-> st.fragment,
      attaches |-> 1]

NoBatch ==
  [made |-> FALSE, container |-> "c1", updates |-> <<>>,
   pre |-> [c \in Containers |-> <<>>], fragment |-> <<>>, attaches |-> 0]

BatchInit == lastBatch = NoBatch

\* batchDOMUpdates(container, updates), by a caller
Batch ==
  \E c \in Containers, updates \in UpdateLists :
    LET r == batchDOMUpdates(children, c, updates)
    IN /\ children' = r.children
       /\ lastBatch' = [made |-> TRUE, container |-> c, updates |-> updates,
                        pre |-> children, fragment |-> r.fragment,
                        attaches |-> r.attaches]
       /\ lastReorder' = NoReorder
       /\ UNCHANGED <<cacheVars, mergeVars, notBatch>>

----------------------------------------------------------------------------
(* ObjectPool, as arrayPool is built: the instances are arrays *)

Consumers == {"u1", "u2"}

NoInstance == 0

\* createFn of arrayPool: () => []
createFn == 0

\* resetFn of arrayPool: (arr) => { arr.length = 0 }
resetFn(len) == 0

\* this.pool.pop()
Pop(items) == SubSeq(items, 1, Len(items) - 1)

\* get(): the instance returned, the pool left, the instances that exist and
\* the calls made of createFn
PoolGetOf(p, insts) ==
  IF Len(p.items) > 0
    THEN [obj |-> p.items[Len(p.items)], items |-> Pop(p.items),
          insts |-> insts, fromPool |-> TRUE, createCalls |-> 0]
    ELSE [obj |-> Len(insts) + 1, items |-> p.items,
          insts |-> Append(insts, createFn), fromPool |-> FALSE, createCalls |-> 1]

\* (variant: release pushes the instance without resetting it)
PoolReleaseUnreset(p, insts, obj) ==
  [items |-> Append(p.items, obj), insts |-> insts, resetCalls |-> 0]

\* release(obj): the pool left, the instances and the calls made of resetFn
PoolReleaseOf(p, insts, obj) ==
  IF p.hasReset
    THEN [items |-> Append(p.items, obj),
          insts |-> [insts EXCEPT ![obj] = resetFn(insts[obj])],
          resetCalls |-> 1]
    ELSE [items |-> Append(p.items, obj), insts |-> insts, resetCalls |-> 0]

NoPool == [built |-> FALSE, hasReset |-> FALSE, items |-> <<>>]

NoGet == [made |-> FALSE, by |-> "u1", obj |-> NoInstance, fromPool |-> FALSE,
          createCalls |-> 0, poolBefore |-> <<>>, poolAfter |-> <<>>,
          heldBy |-> {}, existed |-> FALSE, resetAtRelease |-> FALSE]

NoRelease == [made |-> FALSE, obj |-> NoInstance, resetCalls |-> 0,
              lenBefore |-> 0, lenAfter |-> 0, poolBefore |-> <<>>, poolAfter |-> <<>>]

PoolInit ==
  /\ pool = NoPool
  /\ instances = <<>>
  /\ refs = [c \in Consumers |-> {}]
  /\ holders = <<>>
  /\ poolCounts = [gets |-> 0, served |-> 0, releases |-> 0, resetAt |-> <<>>]
  /\ lastGet = NoGet
  /\ lastRelease = NoRelease

\* new ObjectPool(createFn, resetFn), resetFn being optional
NewPool ==
  /\ ~pool.built
  /\ \E hasReset \in BOOLEAN :
       pool' = [built |-> TRUE, hasReset |-> hasReset, items |-> <<>>]
  /\ UNCHANGED <<instances, refs, holders, poolCounts, lastGet, lastRelease, notPool>>

\* a consumer calls get() and keeps what it returns
PoolGet ==
  /\ pool.built
  /\ poolCounts.gets + poolCounts.releases < MaxPoolCalls
  /\ \E c \in Consumers :
       LET r == PoolGetOf(pool, instances)
       IN /\ pool' = [pool EXCEPT !.items = r.items]
          /\ instances' = r.insts
          /\ refs' = [refs EXCEPT ![c] = @ \cup {r.obj}]
          /\ holders' = IF r.fromPool
                          THEN [holders EXCEPT ![r.obj] = @ \cup {c}]
                          ELSE Append(holders, {c})
          /\ poolCounts' = [poolCounts EXCEPT
                              !.gets = @ + 1,
                              !.served = IF r.fromPool THEN @ + 1 ELSE @,
                              !.resetAt = IF r.fromPool THEN @ ELSE Append(@, FALSE)]
          /\ lastGet' = [made |-> TRUE, by |-> c, obj |-> r.obj,
                         fromPool |-> r.fromPool, createCalls |-> r.createCalls,
                         poolBefore |-> pool.items, poolAfter |-> r.items,
                         heldBy |-> IF r.fromPool THEN holders[r.obj] ELSE {},
                         existed |-> r.obj \in DOMAIN instances,
                         resetAtRelease |-> IF r.fromPool THEN poolCounts.resetAt[r.obj]
                                                          ELSE FALSE]
  /\ UNCHANGED <<lastRelease, notPool>>

\* a consumer pushes onto an array it obtained and has not released since
PoolUse ==
  \E c \in Consumers, obj \in DOMAIN instances :
    /\ c \in holders[obj]
    /\ instances[obj] < MaxArrayLen
    /\ instances' = [instances EXCEPT ![obj] = @ + 1]
    /\ UNCHANGED <<pool, refs, holders, poolCounts, lastGet, lastRelease, notPool>>

\* a consumer calls release(obj) on an instance it has a reference to
PoolRelease ==
  /\ pool.built
  /\ poolCounts.gets + poolCounts.releases < MaxPoolCalls
  /\ \E c \in Consumers : \E obj \in refs[c] :
       LET r == PoolReleaseOf(pool, instances, obj)
       IN /\ pool' = [pool EXCEPT !.items = r.items]
          /\ instances' = r.insts
          /\ holders' = [holders EXCEPT ![obj] = @ \ {c}]
          /\ poolCounts' = [poolCounts EXCEPT
                              !.releases = @ + 1,
                              !.resetAt = [@ EXCEPT ![obj] = r.resetCalls = 1]]
          /\ lastRelease' = [made |-> TRUE, obj |-> obj, resetCalls |-> r.resetCalls,
                             lenBefore |-> instances[obj],
                             lenAfter |-> r.insts[obj],
                             poolBefore |-> pool.items, poolAfter |-> r.items]
  /\ UNCHANGED <<refs, lastGet, notPool>>

PoolNext == NewPool \/ PoolGet \/ PoolUse \/ PoolRelease

----------------------------------------------------------------------------
(* The private store (a WeakMap of plain objects) and getNodeKey *)

\* <div id="a">
KeyNodeA == [h |-> 1, kind |-> "element", id |-> "a", magic |-> NullAttr]

\* <div phx-magic-id="m1">
KeyNodeM == [h |-> 2, kind |-> "element", id |-> "", magic |-> "m1"]

\* <div>
KeyNodePlain == [h |-> 3, kind |-> "element", id |-> "", magic |-> NullAttr]

\* <div id="b" phx-magic-id="m2">
KeyNodeBoth == [h |-> 4, kind |-> "element", id |-> "b", magic |-> "m2"]

\* a text node: it has neither an id property nor getAttribute
KeyNodeText == [h |-> 5, kind |-> "text", id |-> "", magic |-> NullAttr]

KeyNodes == {KeyNodeA, KeyNodeM, KeyNodePlain, KeyNodeBoth, KeyNodeText}

\* the nodes that get private data
StoreNodes == {KeyNodeA, KeyNodeM}

\* the keys used, and the values put under each (the JS values 1, true, false)
StoreKeys == {"k", "destroyed", "toString"}

StoreValues(key) == IF key = "destroyed" THEN {"true", "false"} ELSE {"1"}

\* the properties every plain object inherits from Object.prototype, of which
\* toString stands for all, and the value read for it
ObjectPrototype == {"toString"}

BuiltIn(key) == "<function " \o key \o ">"

\* no entry in the WeakMap
NoObject == [exists |-> FALSE, own |-> EmptyMap]

\* privateObj = {}
NewObject == [exists |-> TRUE, own |-> EmptyMap]

\* privateObj[key]: an own property, else an inherited one, else undefined
PropertyOf(obj, key) ==
  IF key \in DOMAIN obj.own THEN obj.own[key]
  ELSE IF key \in ObjectPrototype THEN BuiltIn(key)
  ELSE Undefined

\* whether a JS value counts as true in a condition
Truthy(v) == v \notin {Undefined, NullAttr, "", "false"}

\* optimizedPutPrivate(el, key, value)
optimizedPutPrivate(st, el, key, value) ==
  LET privateObj == IF st[el.h].exists THEN st[el.h] ELSE NewObject
  IN [st EXCEPT ![el.h] = [privateObj EXCEPT !.own = MapPut(@, key, value)]]

\* optimizedGetPrivate(el, key)
optimizedGetPrivate(st, el, key) ==
  IF st[el.h].exists THEN PropertyOf(st[el.h], key) ELSE Undefined

\* optimizedDeletePrivate(el, key)
optimizedDeletePrivate(st, el, key) ==
  IF st[el.h].exists
    THEN [st EXCEPT ![el.h].own = MapRestrict(@, DOMAIN @ \ {key})]
    ELSE st

\* node.id: the id attribute on an element ("" without one), undefined on a
\* node that is no element
idOf(node) == IF node.kind = "element" THEN node.id ELSE Undefined

\* a && b, a || b on JS values
And(a, b) == IF Truthy(a) THEN b ELSE a

Or(a, b) == IF Truthy(a) THEN a ELSE b

\* node.getAttribute && node.getAttribute("phx-magic-id")
magicIdOf(node) == IF node.kind = "element" THEN node.magic ELSE Undefined

\* isPhxDestroyed(node): node.id && optimizedGetPrivate(node, "destroyed")
isPhxDestroyed(st, node) == And(idOf(node), optimizedGetPrivate(st, node, "destroyed"))

\* (variant: the join patch falls back on the magic id as well)
getNodeKeyAlwaysFallingBack(st, node, isJoinPatch) ==
  IF Truthy(isPhxDestroyed(st, node)) THEN NullAttr
  ELSE Or(idOf(node), magicIdOf(node))

\* getNodeKey(node) of getOptimizedMorphdomConfig(targetContainer, isJoinPatch)
getNodeKey(st, node, isJoinPatch) ==
  IF Truthy(isPhxDestroyed(st, node)) THEN NullAttr
  ELSE IF isJoinPatch THEN idOf(node)
  ELSE Or(idOf(node), magicIdOf(node))

NoPrivateCall ==
  [op |-> "none", node |-> KeyNodeA, key |-> "", isJoinPatch |-> FALSE,
   result |-> Undefined, afterDelete |-> FALSE]

StoreInit ==
  /\ privateStore = [h \in {n.h : n \in KeyNodes} |-> NoObject]
  /\ deleted = {}
  /\ lastPrivate = NoPrivateCall

\* optimizedPutPrivate(el, key, value), by a caller
PutPrivate ==
  \E el \in StoreNodes, key \in StoreKeys : \E value \in StoreValues(key) :
    /\ privateStore' = optimizedPutPrivate(privateStore, el, key, value)
    /\ deleted' = deleted \ {<<el.h, key>>}
    /\ lastPrivate' = [NoPrivateCall EXCEPT !.op = "put", !.node = el, !.key = key]
    /\ UNCHANGED notStore

\* optimizedGetPrivate(el, key), by a caller
GetPrivate ==
  \E el \in StoreNodes, key \in StoreKeys :
    /\ lastPrivate' = [NoPrivateCall EXCEPT
                         !.op = "get", !.node = el, !.key = key,
                         !.result = optimizedGetPrivate(privateStore, el, key),
                         !.afterDelete = <<el.h, key>> \in deleted]
    /\ UNCHANGED <<privateStore, deleted, notStore>>

\* optimizedDeletePrivate(el, key), by a caller
DeletePrivate ==
  \E el \in StoreNodes, key \in StoreKeys :
    /\ privateStore' = optimizedDeletePrivate(privateStore, el, key)
    /\ deleted' = deleted \cup {<<el.h, key>>}
    /\ lastPrivate' = [NoPrivateCall EXCEPT !.op = "delete", !.node = el, !.key = key]
    /\ UNCHANGED notStore

\* config.getNodeKey(node), by morphdom, on any node of the trees it walks
GetNodeKey ==
  \E node \in KeyNodes, isJoinPatch \in BOOLEAN :
    /\ lastPrivate' = [NoPrivateCall EXCEPT
                         !.op = "getNodeKey", !.node = node,
                         !.isJoinPatch = isJoinPatch,
                         !.result = getNodeKey(privateStore, node, isJoinPatch)]
    /\ UNCHANGED <<privateStore, deleted, notStore>>

StoreNext == PutPrivate \/ GetPrivate \/ DeletePrivate \/ GetNodeKey

----------------------------------------------------------------------------
(* debounce(func, wait): the timers of the event loop and the closure *)

NotWrapped == -1

NoTimer == 0

WaitChoices == {0, 50}

\* clearTimeout(id): the timer of that id, if still set, is dropped; any other
\* id (undefined, or a timer that has fired) clears nothing
clearTimeout(ts, id) == {t \in ts : t.id # id}

\* setTimeout(later, wait) at time now: later closes over args; the id is new
setTimeout(ts, id, now, wait, args) ==
  ts \cup {[id |-> id, due |-> now + wait, args |-> args]}

\* (variant: the pending timer is not cleared before the new one is set)
ScheduleKeepingPending(ts, pendingId, id, now, wait, args) ==
  setTimeout(ts, id, now, wait, args)

\* (variant: an invocation made while a timer is pending leaves that timer be)
ScheduleUnlessPending(ts, pendingId, id, now, wait, args) ==
  IF clearTimeout(ts, pendingId) # ts THEN ts
  ELSE setTimeout(ts, id, now, wait, args)

\* lines 196-197: clearTimeout(timeout); timeout = setTimeout(later, wait)
Schedule(ts, pendingId, id, now, wait, args) ==
  setTimeout(clearTimeout(ts, pendingId), id, now, wait, args)

\* the timers left when timer t fires and later runs: t itself is spent, and
\* line 193 clears the timer timeout names
AfterLater(ts, t, pendingId) == clearTimeout(ts \ {t}, pendingId)

NoInvocation == [n |-> 0, at |-> 0, args |-> 0, bursts |-> 0, burstLen |-> 0,
                 burstFrom |-> 0]

NoExecution == [count |-> 0, args |-> 0, at |-> 0, n |-> 0, prevN |-> 0,
                invokedAt |-> 0, invokedArgs |-> 0, burstLen |-> 0,
                burstFrom |-> 0, pendingBefore |-> 0]

DebounceInit ==
  /\ dwait = NotWrapped
  /\ dclock = 0
  /\ timers = {}
  /\ timeout = NoTimer
  /\ invoked = NoInvocation
  /\ executed = NoExecution

\* const debounced = debounce(func, wait)
Wrap ==
  /\ dwait = NotWrapped
  /\ \E w \in WaitChoices : dwait' = w
  /\ UNCHANGED <<dclock, timers, timeout, invoked, executed, notDebounce>>

\* time passes on the event loop
DebounceTick ==
  \E d \in DebounceSteps :
    /\ dclock + d <= MaxDebounceClock
    /\ dclock' = dclock + d
    /\ UNCHANGED <<dwait, timers, timeout, invoked, executed, notDebounce>>

\* debounced(args): executedFunction runs to its end. The k-th invocation
\* passes k, so the argument tells the invocations apart. A burst is a run of
\* invocations each made while the timer of the one before was still set.
\* (No invocation is made so late that its timer would come due after the
\* modelled time ends.)
Invoke ==
  /\ dwait # NotWrapped
  /\ invoked.n < MaxInvocations
  /\ dclock + dwait <= MaxDebounceClock
  /\ LET args == invoked.n + 1 IN
       /\ timers' = Schedule(timers, timeout, invoked.n + 1, dclock, dwait, args)
       /\ timeout' = invoked.n + 1
       /\ invoked' = [n |-> invoked.n + 1, at |-> dclock, args |-> args,
                      bursts |-> IF timers = {} THEN invoked.bursts + 1
                                                ELSE invoked.bursts,
                      burstLen |-> IF timers = {} THEN 1 ELSE invoked.burstLen + 1,
                      burstFrom |-> IF timers = {} THEN dclock ELSE invoked.burstFrom]
  /\ UNCHANGED <<dwait, dclock, executed, notDebounce>>

\* a timer that is due fires: later runs, and with it func(...args)
Fire ==
  \E t \in timers :
    /\ t.due <= dclock
    /\ timers' = AfterLater(timers, t, timeout)
    /\ executed' = [count |-> executed.count + 1, args |-> t.args, at |-> dclock,
                    n |-> invoked.n, prevN |-> executed.n,
                    invokedAt |-> invoked.at, invokedArgs |-> invoked.args,
                    burstLen |-> invoked.burstLen, burstFrom |-> invoked.burstFrom,
                    pendingBefore |-> Cardinality(timers)]
    /\ UNCHANGED <<dwait, dclock, timeout, invoked, notDebounce>>

DebounceNext == Wrap \/ DebounceTick \/ Invoke \/ Fire

----------------------------------------------------------------------------
(* Specifications *)

Init == CacheInit /\ MergeInit /\ ReorderInit /\ DebounceInit /\ PoolInit
  /\ StoreInit /\ MissingInit /\ BatchInit

\* The cache under lookups of a scope with an id, of a scope without one and
\* of a missing scope, with and without a callback.
TreeChange == TreeChangeOn({NodeA})

Lookup == LookupOn({NodeA, NULL}, Queries, BOOLEAN)

CacheNext == Tick \/ TreeChange \/ Lookup

SpecCache == Init /\ [][CacheNext]_vars

\* The cache under the fill loop, which takes it past its size limit.
TreeChangeA == TreeChangeOn({NodeA})

LookupA == LookupOn({NodeA}, {".item"}, {FALSE})

FillNext == Tick \/ TreeChangeA \/ LookupA \/ FillLoop

SpecFill == Init /\ [][FillNext]_vars

\* The cache under lookups whose scope id or selector holds a colon.
TreeChangeK == TreeChangeOn({NodeA, NodeColon})

LookupK == LookupOn({NodeA, NodeColon}, ColonQueries, {FALSE})

KeysNext == Tick \/ TreeChangeK \/ LookupK

SpecKeys == Init /\ [][KeysNext]_vars

\* The merge, and the reorder, each on its own.
SpecMerge == Init /\ [][MergeNext]_vars

SpecReorder == Init /\ [][ReorderNext]_vars

\* The debounced function, without and with the event loop's fairness: time
\* keeps passing, and a timer that is due is run.
SpecDebounce == Init /\ [][DebounceNext]_vars

SpecDebounceFair == SpecDebounce /\ WF_vars(DebounceTick) /\ WF_vars(Fire)

\* The object pool under consumers that get, use and release arrays.
SpecPool == Init /\ [][PoolNext]_vars

\* The private store and the node key that reads it.
SpecStore == Init /\ [][StoreNext]_vars

\* The merge and the reorder called with a null argument.
SpecMissing == Init /\ [][MissingNext]_vars

\* The batched insertion, call after call.
SpecBatch == Init /\ [][Batch]_vars

\* every operation of the module together
Next ==
  \/ CacheNext \/ FillLoop \/ KeysNext \/ MergeNext \/ ReorderNext \/ DebounceNext
  \/ PoolNext \/ StoreNext \/ MissingNext \/ Batch

Spec == Init /\ [][Next]_vars

----------------------------------------------------------------------------
(* Claims about the query cache *)

\* the latest lookup was made on a scope node and an earlier lookup used its key
AfterRepeatedLookup ==
  /\ lastLookup.c.made
  /\ lastLookup.c.node # NULL
  /\ lastLookup.prior.known

\* the latest lookup handed back the very entry the prior lookup of the key did
SameEntryAsPrior ==
  /\ lastLookup.c.hit
  /\ lastLookup.c.results = lastLookup.prior.results
  /\ lastLookup.c.entryAt = lastLookup.prior.entryAt

\* the latest lookup ran the query on the live tree and handed back its result
ReExecuted ==
  /\ lastLookup.c.ran
  /\ lastLookup.c.results = lastLookup.c.live
  /\ lastLookup.c.entryAt = lastLookup.c.at

\* C1 as stated: a lookup 100ms or more after the prior lookup of the same key
\* re-executes the query, and a lookup less than 100ms after the prior lookup
\* of the same key returns the identical entry as that prior lookup.
C1_TTLFromPriorLookup ==
  AfterRepeatedLookup =>
    IF lastLookup.c.at - lastLookup.prior.at >= CACHE_TTL
      THEN ReExecuted
      ELSE SameEntryAsPrior

\* C1 amended: a lookup 100ms or more after the prior lookup of the same key
\* re-executes the query; a lookup returns the identical entry as the prior
\* lookup of the key exactly when less than 100ms have passed since that entry
\* was created (by the latest lookup of the key that ran the query), and
\* otherwise it re-executes the query.
C1_TTLFromCreation ==
  AfterRepeatedLookup =>
    /\ lastLookup.c.at - lastLookup.prior.at >= CACHE_TTL => ReExecuted
    /\ IF lastLookup.c.at - lastLookup.prior.entryAt < CACHE_TTL
         THEN SameEntryAsPrior
         ELSE ReExecuted

\* C1 witness: a lookup within the TTL is served the prior lookup's entry
\* although the live tree has changed since
C1_Witness ==
  /\ AfterRepeatedLookup
  /\ SameEntryAsPrior
  /\ lastLookup.c.at > lastLookup.prior.at
  /\ lastLookup.c.live # lastLookup.c.results

\* C2: a lookup returns a stored entry's results only if that entry is less
\* than 100ms old; otherwise (no entry, or an expired one still present) it
\* returns the result of the query on the live tree and leaves exactly that
\* result, stamped with the time of the call, stored under the key.
C2_NeverReturnsExpired ==
  (lastLookup.c.made /\ lastLookup.c.node # NULL) =>
    LET c == lastLookup.c
    IN /\ c.key \in DOMAIN queryCache
       /\ queryCache[c.key] = [results |-> c.results, timestamp |-> c.entryAt]
       /\ c.hit => c.at - c.entryAt < CACHE_TTL
       /\ ~c.hit => /\ c.results = c.live
                    /\ c.entryAt = c.at
       /\ ~c.callback => c.ret = [kind |-> "array", items |-> c.results]

\* C2 witness: an expired entry was still present, and the lookup replaced it
\* by a different, fresh result
C2_Witness ==
  /\ AfterRepeatedLookup
  /\ ReExecuted
  /\ lastLookup.c.at - lastLookup.prior.entryAt >= CACHE_TTL
  /\ lastLookup.c.results # lastLookup.prior.results
  /\ queryCache[lastLookup.c.key].timestamp = lastLookup.c.at

\* C3 as stated: the cache never holds more than 100 entries.
C3_SizeBounded == Cardinality(DOMAIN queryCache) <= CacheSizeLimit

\* C4 as stated: right after an insertion that takes the cache past 100
\* entries, every entry left in it is one a lookup at that instant would
\* still serve (less than 100ms old).
C4_SweepLeavesOnlyValid ==
  (lastLookup.c.made /\ lastLookup.c.ran /\ lastLookup.c.sizeAfterSet > CacheSizeLimit) =>
    \A k \in DOMAIN queryCache : IsHit(queryCache, k, lastLookup.c.at)

----------------------------------------------------------------------------
(* Claims about the attribute merge *)

\* optimizedMergeAttrs has returned, and mergePre, mergeOpts and the last of
\* mergeLogs describe that call
Merged == mpc \in {"merged", "again"}

Pre(name) == getAttribute(mergePre, name)

Post(name) == getAttribute(target, name)

Src(name) == getAttribute(source, name)

\* "value" was excluded and target's value equalled source's when the call began
ExceptionApplied ==
  "value" \in mergeOpts.exclude /\ valueOf(mergePre) = valueOf(source)

\* C5 as stated: after a full-sync merge target's attributes are source's
\* minus the excluded names, plus "value" when the value exception applies.
C5_SourceMinusExcluded ==
  (Merged /\ ~mergeOpts.isIgnored) =>
    \A name \in AttrNames :
      Post(name) =
        IF /\ hasAttribute(source, name)
           /\ (name \notin mergeOpts.exclude \/ (name = "value" /\ ExceptionApplied))
          THEN Src(name) ELSE NullAttr

\* C5 amended: after a full-sync merge, every name absent from source is
\* absent from target (excluded or not); every non-excluded name of source
\* has source's value on target; every excluded name of source is as it was
\* on target before the merge (kept with target's own value, or still absent),
\* except "value", which has source's value when the value exception applies.
C5_FullSync ==
  (Merged /\ ~mergeOpts.isIgnored) =>
    \A name \in AttrNames :
      Post(name) =
        IF ~hasAttribute(source, name) THEN NullAttr
        ELSE IF name \notin mergeOpts.exclude THEN Src(name)
        ELSE IF name = "value" /\ ExceptionApplied THEN Src(name)
        ELSE Pre(name)

\* C5 witness: a full-sync merge made writes and left an excluded attribute,
\* which source carries with another value, at target's own value
C5_Witness ==
  /\ mpc = "merged"
  /\ ~mergeOpts.isIgnored
  /\ "class" \in mergeOpts.exclude
  /\ hasAttribute(source, "class")
  /\ hasAttribute(mergePre, "class")
  /\ Pre("class") # Src("class")
  /\ Post("class") = Pre("class")
  /\ mergeLogs[1] # <<>>

\* C6 as stated: after a filtered merge every non-excluded name of source has
\* source's value on target, whatever its prefix; target's "data-" attributes
\* absent from source are removed unless they are PHX_REF or PHX_REF_SRC;
\* every other attribute of target absent from source is untouched.
C6_FilteredAnyPrefix ==
  (Merged /\ mergeOpts.isIgnored) =>
    \A name \in AttrNames :
      /\ (hasAttribute(source, name) /\ name \notin mergeOpts.exclude)
           => Post(name) = Src(name)
      /\ ~hasAttribute(source, name) =>
           Post(name) =
             IF StartsWithData(name) /\ name \notin {PHX_REF, PHX_REF_SRC}
               THEN NullAttr ELSE Pre(name)

\* C6 amended: after a filtered merge every non-excluded name of source that
\* starts with "data-" has source's value on target, and every non-excluded
\* name of source without that prefix is as it was on target before the
\* merge; the rest as stated.
C6_Filtered ==
  (Merged /\ mergeOpts.isIgnored) =>
    \A name \in AttrNames :
      /\ (hasAttribute(source, name) /\ name \notin mergeOpts.exclude) =>
           Post(name) = IF StartsWithData(name) THEN Src(name) ELSE Pre(name)
      /\ ~hasAttribute(source, name) =>
           Post(name) =
             IF StartsWithData(name) /\ name \notin {PHX_REF, PHX_REF_SRC}
               THEN NullAttr ELSE Pre(name)

\* C6 witness: a filtered merge updated a "data-" attribute, left a differing
\* class alone and kept a sentinel that source does not carry
C6_Witness ==
  /\ mpc = "merged"
  /\ mergeOpts.isIgnored
  /\ mergeOpts.exclude = {}
  /\ Src("data-x") = "X" /\ Pre("data-x") = "Y" /\ Post("data-x") = "X"
  /\ Src("class") = "X" /\ Pre("class") = "Y" /\ Post("class") = "Y"
  /\ hasAttribute(mergePre, PHX_REF) /\ hasAttribute(target, PHX_REF)

\* the one write a repeated merge makes when the value exception applies
ValueResync == <<[op |-> "set", name |-> "value", value |-> Src("value")]>>

\* C7 as stated: a second merge, source unchanged and target as the first
\* merge left it, makes no write on target.
C7_SecondMergeWritesNothing ==
  mpc = "again" => mergeLogs[2] = <<>>

\* C7 amended: a second merge leaves target as it is, and makes no write
\* unless "value" is excluded, source carries a "value" attribute and target's
\* value equals source's, in which case its only write sets "value" to
\* source's attribute once more.
C7_SecondMergeChangesNothing ==
  mpc = "again" =>
    /\ target = mergePre
    /\ mergeLogs[2] =
         IF ExceptionApplied /\ hasAttribute(source, "value")
           THEN ValueResync ELSE <<>>

\* C7 witness: the first merge both set and removed attributes, the second
\* made no write
C7_Witness ==
  /\ mpc = "again"
  /\ \E i, j \in DOMAIN mergeLogs[1] :
       mergeLogs[1][i].op = "set" /\ mergeLogs[1][j].op = "remove"
  /\ mergeLogs[2] = <<>>

\* C8 as stated: with exclude = {"value"} and target.value = source.value = X
\* before the merge, target's "value" attribute is X after it, neither removed
\* nor left at another value (taken here for a target that carries one).
C8_ValueAttributeIsX ==
  (/\ mpc = "merged"
   /\ mergeOpts.exclude = {"value"}
   /\ hasAttribute(mergePre, "value")
   /\ valueOf(source) # Undefined
   /\ valueOf(mergePre) = valueOf(source))
  => Post("value") = valueOf(source)

\* C8 amended: with exclude = {"value"} and target.value = source.value = X
\* before the merge, target's "value" attribute after it is source's "value"
\* attribute if source carries one; if source carries none, target's is
\* removed by a full-sync merge and left as it was by a filtered one.
C8_ValueException ==
  (/\ mpc = "merged"
   /\ mergeOpts.exclude = {"value"}
   /\ valueOf(source) # Undefined
   /\ valueOf(mergePre) = valueOf(source))
  => Post("value") =
       IF hasAttribute(source, "value") THEN Src("value")
       ELSE IF mergeOpts.isIgnored THEN Pre("value") ELSE NullAttr

\* C8 witness: target's value is X while its attribute says Y, source's
\* attribute and value are X, and the merge set target's attribute to X
C8_Witness ==
  /\ mpc = "merged"
  /\ mergeOpts.exclude = {"value"}
  /\ valueOf(mergePre) = "X" /\ valueOf(source) = "X"
  /\ Pre("value") = "Y" /\ Src("value") = "X"
  /\ Post("value") = "X"

----------------------------------------------------------------------------
(* Claims about the stream reorder *)

\* the index (from 0) the contract gives the item: 0 for streamAt 0, else
\* streamAt clamped to the last index of the container as it was at the call
ClampedIndex ==
  IF lastReorder.streamAt = 0 THEN 0
  ELSE Min(lastReorder.streamAt, Len(lastReorder.pre[lastReorder.container]) - 1)

\* apart from the item, every container holds what it held, in the same order
OthersKeepOrder ==
  \A c \in Containers :
    Without(children[c], lastReorder.item) = Without(lastReorder.pre[c], lastReorder.item)

\* C9 as stated: for any container, any item that has a parent and any
\* streamAt >= 0, the item ends at index 0 of the container if streamAt is 0
\* and at min(streamAt, childCount - 1) otherwise, the other children keeping
\* their relative order.
C9_AnyParentedItem ==
  (lastReorder.made /\ lastReorder.parent # NoParent /\ lastReorder.streamAt >= 0) =>
    /\ indexOf(children[lastReorder.container], lastReorder.item) = ClampedIndex
    /\ OthersKeepOrder

\* C9 amended: the same for any item whose parent is the container; an item
\* whose parent is another element is still put at index 0 when streamAt is 0,
\* and whatever happens the other children keep their relative order.
C9_ChildOfContainer ==
  (lastReorder.made /\ lastReorder.parent # NoParent /\ lastReorder.streamAt >= 0) =>
    /\ (lastReorder.parent = lastReorder.container \/ lastReorder.streamAt = 0) =>
         indexOf(children[lastReorder.container], lastReorder.item) = ClampedIndex
    /\ OthersKeepOrder

\* C9 witness: [A,B,C,D] and reorder(container, D, 1) give [A,D,B,C]
C9_Witness ==
  /\ lastReorder.made
  /\ lastReorder.pre["c1"] = <<"A", "B", "C", "D">>
  /\ lastReorder.container = "c1" /\ lastReorder.item = "D" /\ lastReorder.streamAt = 1
  /\ children["c1"] = <<"A", "D", "B", "C">>

\* C10: the call makes no structural call and leaves every child order as it
\* was whenever the item has no parent, or is a child of the container already
\* at the clamped index for streamAt.
C10_NoOp ==
  (/\ lastReorder.made
   /\ \/ lastReorder.parent = NoParent
      \/ /\ lastReorder.parent = lastReorder.container
         /\ lastReorder.streamAt >= 0
         /\ indexOf(lastReorder.pre[lastReorder.container], lastReorder.item) = ClampedIndex)
  => /\ lastReorder.moves = <<>>
     /\ children = lastReorder.pre

\* C10 witness: the item is the last of several children and streamAt is past
\* the end, so the clamped index is the one it has; nothing was moved
C10_Witness ==
  /\ lastReorder.made
  /\ lastReorder.parent = lastReorder.container
  /\ Len(lastReorder.pre[lastReorder.container]) >= 3
  /\ lastReorder.streamAt > Len(lastReorder.pre[lastReorder.container]) - 1
  /\ indexOf(lastReorder.pre[lastReorder.container], lastReorder.item) = ClampedIndex
  /\ lastReorder.moves = <<>>
  /\ children = lastReorder.pre

----------------------------------------------------------------------------
(* Claims about the debounce *)

TimerPending == timers # {}

\* func has run for the latest invocation, and nothing is pending
Settled ==
  /\ ~TimerPending
  /\ executed.count > 0
  /\ executed.n = invoked.n
  /\ executed.args = invoked.args

\* C11: every burst of one or more invocations, each made before the timer of
\* the one before fired, makes func run exactly once, after the burst, with
\* the arguments of the burst's last invocation: whenever no timer is pending
\* func has run once per burst so far, while a burst is under way it has not
\* run for that burst yet, and each run used the latest invocation's arguments.
C11_BurstCollapses ==
  /\ executed.count + (IF TimerPending THEN 1 ELSE 0) = invoked.bursts
  /\ executed.count > 0 =>
       /\ executed.burstLen >= 1
       /\ executed.args = executed.invokedArgs
       /\ executed.args = executed.n

\* C11 witness: wait is 50, five invocations within 10ms with arguments 1..5,
\* and func has run once, with 5
C11_Witness ==
  /\ dwait = 50
  /\ ~TimerPending
  /\ invoked.n = 5
  /\ executed.count = 1
  /\ executed.burstLen = 5
  /\ executed.invokedAt - executed.burstFrom = 10
  /\ executed.args = 5

\* what holds of the timers and of every run of func
DebounceScheduling ==
  /\ Cardinality(timers) <= 1
  /\ executed.count > 0 =>
       /\ executed.pendingBefore = 1
       /\ executed.at - executed.invokedAt >= dwait
       /\ executed.args = executed.invokedArgs
       /\ executed.n > executed.prevN

\* an invocation of the debounced function does not run func
InvokeRunsNothing == invoked' # invoked => executed' = executed

\* C12: at most one timer is pending at any time; func never runs during an
\* invocation, only from a timer firing no earlier than wait after the latest
\* invocation, and with that invocation's arguments; between two runs of func
\* there is a new invocation; and a pending call is eventually run for the
\* latest invocation (timers that are due fire, and time passes).
C12_Scheduling ==
  /\ []DebounceScheduling
  /\ [][InvokeRunsNothing]_vars
  /\ (TimerPending ~> Settled)

\* C12 witness: func has run twice, the second time after an invocation that
\* replaced a pending timer, at or after wait past that invocation
C12_Witness ==
  /\ dwait = 50
  /\ executed.count = 2
  /\ executed.burstLen = 2
  /\ executed.at = executed.invokedAt + dwait
  /\ Settled

----------------------------------------------------------------------------
(* Claims about the object pool *)

\* C13 as stated: after any calls of get and release the pool never holds an
\* instance twice, never holds an instance that a consumer got and has not
\* released since, and get never hands out an instance that a consumer still
\* holds from an earlier get.
C13_SingleOwner ==
  /\ \A i, j \in DOMAIN pool.items : i # j => pool.items[i] # pool.items[j]
  /\ \A i \in DOMAIN pool.items : holders[pool.items[i]] = {}
  /\ lastGet.made => lastGet.heldBy = {}

\* C14: get returns the instance released last among those pooled, taking it
\* out of the pool, whenever the pool is not empty, and without calling the
\* factory; with the pool empty it calls the factory once and returns the new
\* instance; release calls the reset function, if there is one, exactly once
\* and then pushes the instance, so a recycled instance was reset at its last
\* release; and the pool's size is releases minus gets served from the pool.
C14_GetRelease ==
  /\ lastGet.made =>
       /\ lastGet.fromPool <=> lastGet.poolBefore # <<>>
       /\ lastGet.fromPool =>
            /\ lastGet.obj = lastGet.poolBefore[Len(lastGet.poolBefore)]
            /\ lastGet.poolAfter = Pop(lastGet.poolBefore)
            /\ lastGet.createCalls = 0
            /\ lastGet.existed
            /\ pool.hasReset => lastGet.resetAtRelease
       /\ ~lastGet.fromPool =>
            /\ lastGet.createCalls = 1
            /\ lastGet.poolAfter = <<>>
            /\ ~lastGet.existed
  /\ lastRelease.made =>
       /\ lastRelease.poolAfter = Append(lastRelease.poolBefore, lastRelease.obj)
       /\ lastRelease.resetCalls = (IF pool.hasReset THEN 1 ELSE 0)
       /\ pool.hasReset => lastRelease.lenAfter = 0
       /\ ~pool.hasReset => lastRelease.lenAfter = lastRelease.lenBefore
  /\ Len(pool.items) = poolCounts.releases - poolCounts.served

\* C14 witness: an array was filled, released and emptied by the reset, and
\* the next get returned it, to the other consumer, rather than a new one
C14_Witness ==
  /\ pool.hasReset
  /\ lastRelease.made /\ lastRelease.lenBefore = 1 /\ lastRelease.lenAfter = 0
  /\ lastGet.made /\ lastGet.fromPool /\ lastGet.obj = lastRelease.obj
  /\ lastGet.poolBefore = lastRelease.poolAfter
  /\ lastGet.by = "u2" /\ lastGet.obj \in refs["u1"]
  /\ instances[lastGet.obj] = 0
  /\ pool.items = <<>>

----------------------------------------------------------------------------
(* Claims about the private store and the node key *)

\* C15 as stated: a get of a (node, key) pair that was deleted, and not put
\* since, returns undefined, whatever the node and the key.
C15_DeleteThenGet ==
  (lastPrivate.op = "get" /\ lastPrivate.afterDelete) =>
    lastPrivate.result = Undefined

\* the node of the latest getNodeKey call carries an id, carries a magic id,
\* is flagged "destroyed" in the store
HasId == idOf(lastPrivate.node) \notin {"", Undefined}

HasMagicId == magicIdOf(lastPrivate.node) \notin {NullAttr, Undefined}

FlaggedDestroyed ==
  Truthy(optimizedGetPrivate(privateStore, lastPrivate.node, "destroyed"))

\* C16 as stated: getNodeKey returns null for a node with an id that is
\* flagged destroyed; otherwise in a join patch the id, and null without one;
\* otherwise the id if there is one, else the magic id, and null without both.
C16_NullWhenAbsent ==
  lastPrivate.op = "getNodeKey" =>
    lastPrivate.result =
      IF HasId /\ FlaggedDestroyed THEN NullAttr
      ELSE IF lastPrivate.isJoinPatch
        THEN (IF HasId THEN lastPrivate.node.id ELSE NullAttr)
      ELSE IF HasId THEN lastPrivate.node.id
      ELSE IF HasMagicId THEN lastPrivate.node.magic
      ELSE NullAttr

\* C16 amended: null for a node with an id that is flagged destroyed;
\* otherwise the id if there is one; without an id, a join patch gives the
\* node's id property as it is (the empty string on an element, undefined on
\* a node that is no element), and an incremental patch gives the magic id of
\* an element, null if it has none, and undefined on a node that is no element.
C16_NodeKey ==
  lastPrivate.op = "getNodeKey" =>
    lastPrivate.result =
      IF HasId /\ FlaggedDestroyed THEN NullAttr
      ELSE IF HasId THEN lastPrivate.node.id
      ELSE IF lastPrivate.node.kind # "element" THEN Undefined
      ELSE IF lastPrivate.isJoinPatch THEN ""
      ELSE IF HasMagicId THEN lastPrivate.node.magic
      ELSE NullAttr

\* C16 witness: a join patch asks for the key of an element that has a magic
\* id, no id, and a destroyed flag, and gets the empty string
C16_Witness ==
  /\ lastPrivate.op = "getNodeKey"
  /\ lastPrivate.node = KeyNodeM
  /\ lastPrivate.isJoinPatch
  /\ FlaggedDestroyed
  /\ lastPrivate.result = ""

----------------------------------------------------------------------------
(* Claims about the order of the merge's steps *)

\* the positions of the latest call's accesses that write target
WritesAt == {i \in DOMAIN mergeTrace : mergeTrace[i].act = "write"}

\* C19: within one merge call no write on target comes before the last read
\* of source or target by the two passes; every setAttribute comes before
\* every removeAttribute; and the writes are the ones the state of target
\* before the call gives: each set is of a name of source with source's value,
\* which target did not have before (or the excepted "value"), each removal is
\* of a name target had before and source lacks.
C19_TwoPhase ==
  Merged =>
    /\ \A i \in WritesAt : \A j \in DOMAIN mergeTrace : j > i => j \in WritesAt
    /\ \A i, j \in WritesAt :
         (mergeTrace[i].what = "removeAttribute" /\ mergeTrace[j].what = "setAttribute")
           => j < i
    /\ \A i \in WritesAt :
         LET name == mergeTrace[i].name
         IN IF mergeTrace[i].what = "setAttribute"
              THEN /\ hasAttribute(source, name)
                   /\ Post(name) = Src(name)
                   /\ Pre(name) # Src(name) \/ (name = "value" /\ ExceptionApplied)
              ELSE /\ hasAttribute(mergePre, name)
                   /\ ~hasAttribute(source, name)
                   /\ ~hasAttribute(target, name)
    /\ mergeLogs[Len(mergeLogs)] = MergeWrites(mergePre, source, mergeOpts)
    /\ target = ApplyWrites(mergePre, mergeLogs[Len(mergeLogs)])

\* C19 witness: a merge that read target in both passes, for the value
\* exception too, and then made two sets followed by two removals
C19_Witness ==
  /\ mpc = "merged"
  /\ \E i \in DOMAIN mergeTrace :
       mergeTrace[i] = Access("target", "read", "value", "value")
  /\ \E i \in DOMAIN mergeTrace :
       mergeTrace[i] = Access("target", "read", "getAttribute", "class")
  /\ Cardinality({i \in WritesAt : mergeTrace[i].what = "setAttribute"}) = 2
  /\ Cardinality({i \in WritesAt : mergeTrace[i].what = "removeAttribute"}) = 2

----------------------------------------------------------------------------
(* Claims about calls with a missing argument *)

\* the latest call with a null argument left every element and every
\* container as it was
NothingApplied ==
  /\ lastBadCall.targetAfter = lastBadCall.target
  /\ ~lastBadCall.childrenChanged
  /\ lastBadCall.moves = <<>>

\* C17 as stated: a merge called with a missing target or source, and a
\* reorder called with a missing container or item, throws, and has applied
\* no attribute write and no move when it does.
C17_AlwaysThrows ==
  lastBadCall.op # "none" => (lastBadCall.threw /\ NothingApplied)

\* C17 amended: the same, except that a reorder called with a missing
\* container and an item that has no parent returns without an error (and
\* without a move).
C17_ThrowsUnlessParentless ==
  lastBadCall.op # "none" =>
    /\ NothingApplied
    /\ lastBadCall.threw <=>
         ~(/\ lastBadCall.op = "reorder"
           /\ lastBadCall.item # MissingNode
           /\ ~lastBadCall.hasParent)

\* C17 witness: a merge into a missing target from a source without
\* attributes went through the first pass and threw on reading
\* target.attributes, the last thing before the writes
C17_Witness ==
  /\ lastBadCall.op = "merge"
  /\ lastBadCall.target = MissingElement
  /\ lastBadCall.source = NewElement("div")
  /\ lastBadCall.threw
  /\ lastBadCall.what = "attributes"

----------------------------------------------------------------------------
(* Claims about the batched insertion *)

\* container.appendChild(element) for each add of the list, one at a time and
\* in list order, the other updates being passed over
RECURSIVE OneAtATime(_, _, _)
OneAtATime(ch, container, updates) ==
  IF updates = <<>> THEN ch
  ELSE OneAtATime(IF Head(updates).type = "add"
                    THEN appendChild(ch, container, Head(updates).element)
                    ELSE ch,
                  container, Tail(updates))

\* the elements of the adds, each once, in the order of their last add
RECURSIVE LastAdds(_)
LastAdds(updates) ==
  IF updates = <<>> THEN <<>>
  ELSE LET rest == LastAdds(Tail(updates))
           el == Head(updates).element
       IN IF Head(updates).type = "add" /\ ~\E i \in DOMAIN rest : rest[i] = el
            THEN <<el>> \o rest ELSE rest

----------------------------------------------------------------------------
(* Claims about the number of moves of a reorder *)

\* C20: a call makes at most one structural call (one insertBefore or one
\* appendChild), whatever the size of the container, and exactly one whenever
\* the item has a parent and its index among the container's children (-1 if
\* it is not one of them) differs from the target position: 0 for streamAt 0,
\* else streamAt clamped to the last index.
C20_OneMove ==
  lastReorder.made =>
    /\ Len(lastReorder.moves) <= 1
    /\ \A i \in DOMAIN lastReorder.moves :
         lastReorder.moves[i].op \in {"insertBefore", "appendChild"}
    /\ (/\ lastReorder.streamAt >= 0
        /\ lastReorder.parent # NoParent
        /\ indexOf(lastReorder.pre[lastReorder.container], lastReorder.item) # ClampedIndex)
       => Len(lastReorder.moves) = 1

\* C20 witness: an item of another container is brought into a container of
\* three children by one insertBefore
C20_Witness ==
  /\ lastReorder.made
  /\ lastReorder.streamAt = 1
  /\ lastReorder.parent \notin {NoParent, lastReorder.container}
  /\ Len(lastReorder.pre[lastReorder.container]) = 3
  /\ Len(lastReorder.moves) = 1
  /\ lastReorder.moves[1].op = "insertBefore"
  /\ Len(children[lastReorder.container]) = 4

----------------------------------------------------------------------------
(* Claims about the cache keys *)

\* the pair (scope key, query) of the latest lookup, and of the lookup that
\* last used its cache key
LookupPair == <<nodeId(lastLookup.c.node), lastLookup.c.query>>

PriorPair == <<lastLookup.prior.nodeId, lastLookup.prior.query>>

\* C21: two lookups use the same cache key only if their scope keys are equal
\* and their queries are equal, so a lookup is never handed the entry stored
\* for another pair (scope key, query)
C21_KeysSeparate ==
  AfterRepeatedLookup => PriorPair = LookupPair

----------------------------------------------------------------------------
(* Claims about the isolation of the private store *)

\* the pair (el, key) has a record: it was put and not deleted since
HasRecord(el, key) ==
  /\ privateStore[el.h].exists
  /\ key \in DOMAIN privateStore[el.h].own

\* a put or a delete leaves the get of every pair but its own as it was
OtherPairsKept ==
  lastPrivate'.op \in {"put", "delete"} =>
    \A el \in StoreNodes, key \in StoreKeys :
      <<el, key>> # <<lastPrivate'.node, lastPrivate'.key>> =>
        optimizedGetPrivate(privateStore', el, key)
          = optimizedGetPrivate(privateStore, el, key)

\* a get of a pair without a record gives undefined
AbsentWithoutRecord ==
  \A el \in StoreNodes, key \in StoreKeys :
    ~HasRecord(el, key) => optimizedGetPrivate(privateStore, el, key) = Undefined

\* the two halves of C22, each on its own
C22_OtherPairsKept == [][OtherPairsKept]_vars

C22_AbsentWithoutRecord == []AbsentWithoutRecord

\* C22: a put or a delete of (node, key) changes the result of get for that
\* pair only, and get gives undefined for every pair that has no record,
\* whatever the key and whatever else was put on the node
C22_StoreIsolation == [][OtherPairsKept]_vars /\ []AbsentWithoutRecord

====
